---- MODULE Spec2Model ----
(***************************************************************************)
(* Model of src/src/vmemcache_index.c: the vmemcache key index.  Threads   *)
(* call vmcache_index_insert, vmcache_index_get and vmcache_index_remove   *)
(* on one index, and drop the references they got from a get with          *)
(* vmemcache_entry_release.  Every function is split at the statements     *)
(* that touch shared memory (the mutex, the ravl tree, a refcount), so     *)
(* that the serialization comes from lock_ravl and not from the model.     *)
(*                                                                         *)
(* ravl.c and vmemcache.c (ravl_insert, ravl_find, ravl_remove,            *)
(* vmemcache_entry_acquire, vmemcache_entry_release) are not part of the   *)
(* source at hand; they are modelled from the specification's sections 4   *)
(* and 6: an ordered container that rejects duplicates, and an indivisible *)
(* increment / decrement-and-finalize-at-zero of the reference count.      *)
(*                                                                         *)
(* Spec is the one index with its callers; FairSpec adds fair scheduling   *)
(* of the threads and of the mutex; SpecMulti adds vmcache_index_new and   *)
(* vmcache_index_delete of other index instances, which share the static   *)
(* lock_ravl; CmpSpec applies ravl_cmp alone to triples of keys.           *)
(***************************************************************************)
EXTENDS Integers, Sequences, FiniteSets, TLC

\* ------------------------------------------------------------- bounds
NumThreads == 2
MaxEntries == 2
MaxHeld == 1
MaxOthers == 1
MaxKeyLen == 2

\* -------------------------------------------------- program constants
SIZE_1K == 1024
NULL == 0

\* The state of lock_ravl after util_mutex_destroy.
DESTROYED == -1

Threads == 1..NumThreads
Entries == 1..MaxEntries

\* ------------------------------------------------------------- keys
\* struct cache_entry's key: { size_t ksize; char key[]; }.  "a", "ab", "ba"
\* and two keys one byte longer than the inline probe buffer.
KeyPool ==
  << [ksize |-> 1, key |-> <<97>>],
     [ksize |-> 2, key |-> <<97, 98>>],
     [ksize |-> 2, key |-> <<98, 97>>],
     [ksize |-> SIZE_1K + 1, key |-> [i \in 1..(SIZE_1K + 1) |-> 97]],
     [ksize |-> SIZE_1K + 1,
      key |-> [i \in 1..(SIZE_1K + 1) |-> IF i = SIZE_1K + 1 THEN 98 ELSE 97]] >>

KeyIds == 1..Len(KeyPool)

\* The keys the callers of this model use.
Keys == {2, 3, 4}

\* The values an uninitialised refcount may hold (the entry is created by
\* the cache engine with refcount unset).
Unset == {0, 7}

VARIABLES
  index,      \* the ravl tree: its entries in comparator order
  lock_ravl,  \* the thread that holds the mutex, or NULL
  ekey,       \* entry -> id (in KeyPool) of its key, NULL before creation
  refcount,   \* entry -> value.refcount
  finalized,  \* entry -> how many times its memory was released
  uaf,        \* entry -> it was accessed after its memory was released
  nentries,   \* entries created so far
  pc,         \* thread -> the statement it is at
  entry,      \* thread -> the entry argument of insert / remove
  gkey,       \* thread -> the key argument of get
  probe,      \* thread -> get's probe record: "none", "inline", "heap", "freed"
  node,       \* thread -> the result of ravl_find (the entry of the node) or NULL
  out,        \* thread -> *entry, the out parameter of get
  ret,        \* thread -> <<the value its last call returned>>, << >> during a call
  errno,      \* thread -> errno
  held,       \* thread -> entry -> references got from a get and not yet released
  called,     \* thread -> the entries it holds and has already called remove on
  removed,    \* key id -> a remove unlinked it and no insert has linked it since
  linked,     \* entry -> an insert has linked it into the index
  dropped,    \* entry -> how many calls of remove have released it
  others,     \* the other index instances that are live (vmcache_index_new)
  cmp_keys,   \* the keys handed to the comparator, << >> when none
  cmp_res     \* the comparator's results on them, << >> when none

vars == << index, lock_ravl, ekey, refcount, finalized, uaf, nentries, pc, entry,
           gkey, probe, node, out, ret, errno, held, called, removed, linked,
           dropped, others, cmp_keys, cmp_res >>

tvars == << entry, gkey, probe, node, out, ret, errno >>

\* The history variables of the entries.
hvars == << linked, dropped >>

\* The state outside the one index the threads work on.
svars == << others, cmp_keys, cmp_res >>

\* ------------------------------------------------------- comparator
Min(S) == CHOOSE x \in S : \A y \in S : x <= y

\* memcmp(a, b, n): the difference of the first pair of bytes that differ.
memcmp(a, b, n) ==
  LET D == {i \in 1..n : a[i] # b[i]}
  IN  IF D = {} THEN 0 ELSE a[Min(D)] - b[Min(D)]

\* ravl_cmp with "<=" for "<" in its first test.
ravl_cmp_le(lhs, rhs) ==
  IF lhs.ksize <= rhs.ksize THEN -1
  ELSE IF lhs.ksize > rhs.ksize THEN 1
  ELSE memcmp(lhs.key, rhs.key, lhs.ksize)

\* ravl_cmp that compares the bytes first and the lengths second.
ravl_cmp_bytes_first(lhs, rhs) ==
  LET n == IF lhs.ksize < rhs.ksize THEN lhs.ksize ELSE rhs.ksize
      m == memcmp(lhs.key, rhs.key, n)
  IN  IF m # 0 THEN m
      ELSE IF lhs.ksize < rhs.ksize THEN -1
      ELSE IF lhs.ksize > rhs.ksize THEN 1
      ELSE 0

ravl_cmp(lhs, rhs) ==
  IF lhs.ksize < rhs.ksize THEN -1
  ELSE IF lhs.ksize > rhs.ksize THEN 1
  ELSE memcmp(lhs.key, rhs.key, lhs.ksize)

\* The key of an indexed entry, as the comparator reads it.
KeyOf(e) == KeyPool[ekey[e]]

\* ------------------------------------------------ the ordered container
\* The walk down the tree for probe key k: the entry that compares equal, or
\* the place where the walk ends.
RECURSIVE ravl_walk(_, _, _)
ravl_walk(idx, k, i) ==
  IF i > Len(idx) THEN [node |-> NULL, pos |-> i]
  ELSE LET c == ravl_cmp(KeyPool[k], KeyOf(idx[i]))
       IN  IF c = 0 THEN [node |-> idx[i], pos |-> i]
           ELSE IF c < 0 THEN [node |-> NULL, pos |-> i]
           ELSE ravl_walk(idx, k, i + 1)

ravl_find(idx, k) == ravl_walk(idx, k, 1).node

\* ravl_insert: -1 and no change on a duplicate, else the entry linked in.
ravl_insert(idx, e) ==
  LET w == ravl_walk(idx, ekey[e], 1)
  IN  IF w.node # NULL THEN [rc |-> -1, index |-> idx]
      ELSE [rc |-> 0,
            index |-> SubSeq(idx, 1, w.pos - 1) \o <<e>> \o SubSeq(idx, w.pos, Len(idx))]

ravl_remove(idx, n) == SelectSeq(idx, LAMBDA x : x # n)

InIndex(e) == \E i \in 1..Len(index) : index[i] = e

HeldCount(t) ==
  LET RECURSIVE Sum(_)
      Sum(e) == IF e = 0 THEN 0 ELSE held[t][e] + Sum(e - 1)
  IN  Sum(MaxEntries)

Holders(e) ==
  LET RECURSIVE Sum(_)
      Sum(t) == IF t = 0 THEN 0 ELSE held[t][e] + Sum(t - 1)
  IN  Sum(NumThreads)

\* ------------------------------------------------------------ mutex
util_mutex_lock(t) == lock_ravl = NULL /\ lock_ravl' = t

util_mutex_unlock(t) == lock_ravl' = NULL

\* A call returns r: its arguments and locals are gone, the result stays
\* with the caller until its next call.
Return(t, r) ==
  /\ ret' = [ret EXCEPT ![t] = <<r>>]
  /\ pc' = [pc EXCEPT ![t] = "idle"]
  /\ entry' = [entry EXCEPT ![t] = NULL]
  /\ gkey' = [gkey EXCEPT ![t] = NULL]
  /\ probe' = [probe EXCEPT ![t] = "none"]
  /\ node' = [node EXCEPT ![t] = NULL]

\* ---------------------------------------------------- entry lifecycle
\* vmemcache_entry_acquire: one indivisible increment.
vmemcache_entry_acquire(e) == refcount' = [refcount EXCEPT ![e] = @ + 1]

\* vmemcache_entry_release: one indivisible decrement; the entry is finalized
\* when the result is 0.  On an entry whose memory is already released the
\* decrement reads freed memory: it either finds no 1 there and does nothing
\* more, or finds a 1 and finalizes again.
vmemcache_entry_release(e) ==
  IF finalized[e] = 0
  THEN /\ refcount' = [refcount EXCEPT ![e] = @ - 1]
       /\ finalized' = [finalized EXCEPT ![e] = IF refcount[e] - 1 = 0 THEN 1 ELSE 0]
       /\ UNCHANGED uaf
  ELSE /\ uaf' = [uaf EXCEPT ![e] = TRUE]
       /\ \E again \in BOOLEAN :
            finalized' = [finalized EXCEPT ![e] = IF again THEN 2 ELSE @]
       /\ UNCHANGED refcount

\* ------------------------------------------------------------- Init
\* The index, its lock, the entries and the threads after construction.
InitIndex ==
  /\ index = << >>
  /\ lock_ravl = NULL
  /\ ekey = [e \in Entries |-> NULL]
  /\ refcount = [e \in Entries |-> 0]
  /\ finalized = [e \in Entries |-> 0]
  /\ uaf = [e \in Entries |-> FALSE]
  /\ nentries = 0
  /\ pc = [t \in Threads |-> "idle"]
  /\ entry = [t \in Threads |-> NULL]
  /\ gkey = [t \in Threads |-> NULL]
  /\ probe = [t \in Threads |-> "none"]
  /\ node = [t \in Threads |-> NULL]
  /\ out = [t \in Threads |-> NULL]
  /\ ret = [t \in Threads |-> << >>]
  /\ errno = [t \in Threads |-> "none"]
  /\ held = [t \in Threads |-> [e \in Entries |-> 0]]
  /\ called = [t \in Threads |-> {}]
  /\ removed = [k \in KeyIds |-> FALSE]
  /\ linked = [e \in Entries |-> FALSE]
  /\ dropped = [e \in Entries |-> 0]
  /\ others = 0
  /\ cmp_res = << >>

Init ==
  /\ InitIndex
  /\ cmp_keys = << >>

\* ----------------------------------------------- vmcache_index_insert
\* The cache engine creates an entry (refcount unset) and calls insert.
insert_call(t) ==
  /\ pc[t] = "idle"
  /\ nentries < MaxEntries
  /\ \E k \in Keys, u \in Unset :
       /\ ekey' = [ekey EXCEPT ![nentries + 1] = k]
       /\ refcount' = [refcount EXCEPT ![nentries + 1] = u]
  /\ nentries' = nentries + 1
  /\ entry' = [entry EXCEPT ![t] = nentries + 1]
  /\ ret' = [ret EXCEPT ![t] = << >>]
  /\ out' = [out EXCEPT ![t] = NULL]
  /\ pc' = [pc EXCEPT ![t] = "insert_lock"]
  /\ UNCHANGED << svars, index, lock_ravl, finalized, uaf, gkey, probe, node, errno, held, called, removed,
                  hvars >>

\* insert without util_mutex_lock.
insert_lock_skipped(t) ==
  /\ pc[t] = "insert_lock"
  /\ pc' = [pc EXCEPT ![t] = "insert_ravl"]
  /\ UNCHANGED << svars, index, lock_ravl, ekey, refcount, finalized, uaf, nentries, tvars,
                  held, called, removed, hvars >>

insert_lock(t) ==
  /\ pc[t] = "insert_lock"
  /\ util_mutex_lock(t)
  /\ pc' = [pc EXCEPT ![t] = "insert_ravl"]
  /\ UNCHANGED << svars, index, ekey, refcount, finalized, uaf, nentries, tvars, held, called, removed,
                  hvars >>

\* insert that overwrites the entry indexed under an equal key.
insert_ravl_overwrite(t) ==
  /\ pc[t] = "insert_ravl"
  /\ LET n == ravl_find(index, ekey[entry[t]])
         r == ravl_insert(ravl_remove(index, n), entry[t])
     IN  \E alloc_ok \in BOOLEAN :
           IF r.rc = 0 /\ alloc_ok
           THEN /\ index' = r.index
                /\ removed' = [removed EXCEPT ![ekey[entry[t]]] = FALSE]
                /\ linked' = [linked EXCEPT ![entry[t]] = TRUE]
                /\ pc' = [pc EXCEPT ![t] = "insert_refcount"]
           ELSE /\ UNCHANGED << index, removed, linked >>
                /\ pc' = [pc EXCEPT ![t] = "insert_fail"]
  /\ UNCHANGED << svars, lock_ravl, ekey, refcount, finalized, uaf, nentries, tvars, held, called,
                  dropped >>

\* if (ravl_insert(index, entry)): a duplicate key, or the node's allocation
\* failing, sends the call to its error exit.
insert_ravl(t) ==
  /\ pc[t] = "insert_ravl"
  /\ LET r == ravl_insert(index, entry[t])
     IN  \E alloc_ok \in BOOLEAN :
           IF r.rc = 0 /\ alloc_ok
           THEN /\ index' = r.index
                /\ removed' = [removed EXCEPT ![ekey[entry[t]]] = FALSE]
                /\ linked' = [linked EXCEPT ![entry[t]] = TRUE]
                /\ pc' = [pc EXCEPT ![t] = "insert_refcount"]
           ELSE /\ UNCHANGED << index, removed, linked >>
                /\ pc' = [pc EXCEPT ![t] = "insert_fail"]
  /\ UNCHANGED << svars, lock_ravl, ekey, refcount, finalized, uaf, nentries, tvars, held, called,
                  dropped >>

\* insert whose error exit returns with the lock held.
insert_fail_locked(t) ==
  /\ pc[t] = "insert_fail"
  /\ Return(t, -1)
  /\ UNCHANGED << svars, index, lock_ravl, ekey, refcount, finalized, uaf, nentries, out,
                  errno, held, called, removed, hvars >>

\* Lines 90-92.
insert_fail(t) ==
  /\ pc[t] = "insert_fail"
  /\ util_mutex_unlock(t)
  /\ Return(t, -1)
  /\ UNCHANGED << svars, index, ekey, refcount, finalized, uaf, nentries, out, errno, held, called, removed,
                  hvars >>

insert_refcount(t) ==
  /\ pc[t] = "insert_refcount"
  /\ refcount' = [refcount EXCEPT ![entry[t]] = 1]
  /\ pc' = [pc EXCEPT ![t] = "insert_unlock"]
  /\ UNCHANGED << svars, index, lock_ravl, ekey, finalized, uaf, nentries, tvars, held, called, removed,
                  hvars >>

insert_unlock(t) ==
  /\ pc[t] = "insert_unlock"
  /\ util_mutex_unlock(t)
  /\ Return(t, 0)
  /\ UNCHANGED << svars, index, ekey, refcount, finalized, uaf, nentries, out, errno, held, called, removed,
                  hvars >>

vmcache_index_insert(t) ==
  \/ insert_call(t)
  \/ insert_lock(t)
  \/ insert_ravl(t)
  \/ insert_fail(t)
  \/ insert_refcount(t)
  \/ insert_unlock(t)

\* -------------------------------------------------- vmcache_index_get
\* Lines 120-133: *entry = NULL and the probe record, inline for ksize <= 1024
\* and from Malloc above it; a failed Malloc returns -1 before the lock.
get_call(t) ==
  /\ pc[t] = "idle"
  /\ HeldCount(t) < MaxHeld
  /\ \E k \in Keys, alloc_ok \in BOOLEAN :
       /\ out' = [out EXCEPT ![t] = NULL]
       /\ IF KeyPool[k].ksize > SIZE_1K
          THEN IF alloc_ok
               THEN /\ gkey' = [gkey EXCEPT ![t] = k]
                    /\ probe' = [probe EXCEPT ![t] = "heap"]
                    /\ ret' = [ret EXCEPT ![t] = << >>]
                    /\ pc' = [pc EXCEPT ![t] = "get_lock"]
                    /\ UNCHANGED << entry, node >>
               ELSE Return(t, -1)
          ELSE /\ alloc_ok
               /\ gkey' = [gkey EXCEPT ![t] = k]
               /\ probe' = [probe EXCEPT ![t] = "inline"]
               /\ ret' = [ret EXCEPT ![t] = << >>]
               /\ pc' = [pc EXCEPT ![t] = "get_lock"]
               /\ UNCHANGED << entry, node >>
  /\ UNCHANGED << svars, index, lock_ravl, ekey, refcount, finalized, uaf, nentries, errno,
                  held, called, removed, hvars >>

\* get without util_mutex_lock.
get_lock_skipped(t) ==
  /\ pc[t] = "get_lock"
  /\ pc' = [pc EXCEPT ![t] = "get_find"]
  /\ UNCHANGED << svars, index, lock_ravl, ekey, refcount, finalized, uaf, nentries, tvars,
                  held, called, removed, hvars >>

get_lock(t) ==
  /\ pc[t] = "get_lock"
  /\ util_mutex_lock(t)
  /\ pc' = [pc EXCEPT ![t] = "get_find"]
  /\ UNCHANGED << svars, index, ekey, refcount, finalized, uaf, nentries, tvars, held, called, removed,
                  hvars >>

\* get that frees its heap probe before the search, which then finds nothing.
get_find_free_first(t) ==
  /\ pc[t] = "get_find"
  /\ node' = [node EXCEPT ![t] = IF KeyPool[gkey[t]].ksize > SIZE_1K THEN NULL
                                  ELSE ravl_find(index, gkey[t])]
  /\ probe' = [probe EXCEPT ![t] = IF KeyPool[gkey[t]].ksize > SIZE_1K THEN "freed" ELSE @]
  /\ pc' = [pc EXCEPT ![t] = IF node'[t] = NULL THEN "get_notfound" ELSE "get_acquire"]
  /\ UNCHANGED << svars, index, lock_ravl, ekey, refcount, finalized, uaf, nentries, entry,
                  gkey, out, ret, errno, held, called, removed, hvars >>

\* get that gives the lock up after its search, before the acquire.
get_find_unlocked(t) ==
  /\ pc[t] = "get_find"
  /\ node' = [node EXCEPT ![t] = ravl_find(index, gkey[t])]
  /\ probe' = [probe EXCEPT ![t] = IF KeyPool[gkey[t]].ksize > SIZE_1K THEN "freed" ELSE @]
  /\ pc' = [pc EXCEPT ![t] = IF node'[t] = NULL THEN "get_notfound" ELSE "get_acquire"]
  /\ lock_ravl' = NULL
  /\ UNCHANGED << svars, index, ekey, refcount, finalized, uaf, nentries, entry,
                  gkey, out, ret, errno, held, called, removed, hvars >>

\* Lines 137-139: the search, then the heap probe is freed.
get_find(t) ==
  /\ pc[t] = "get_find"
  /\ node' = [node EXCEPT ![t] = ravl_find(index, gkey[t])]
  /\ probe' = [probe EXCEPT ![t] = IF KeyPool[gkey[t]].ksize > SIZE_1K THEN "freed" ELSE @]
  /\ pc' = [pc EXCEPT ![t] = IF node'[t] = NULL THEN "get_notfound" ELSE "get_acquire"]
  /\ UNCHANGED << svars, index, lock_ravl, ekey, refcount, finalized, uaf, nentries, entry,
                  gkey, out, ret, errno, held, called, removed, hvars >>

\* get that reports a key that is not indexed as an error.
get_notfound_error(t) ==
  /\ pc[t] = "get_notfound"
  /\ util_mutex_unlock(t)
  /\ Return(t, -1)
  /\ UNCHANGED << svars, index, ekey, refcount, finalized, uaf, nentries, out, errno, held,
                  called, removed, hvars >>

\* get whose not-found exit returns with the lock held.
get_notfound_locked(t) ==
  /\ pc[t] = "get_notfound"
  /\ Return(t, 0)
  /\ UNCHANGED << svars, index, lock_ravl, ekey, refcount, finalized, uaf, nentries, out,
                  errno, held, called, removed, hvars >>

\* Lines 140-145.
get_notfound(t) ==
  /\ pc[t] = "get_notfound"
  /\ util_mutex_unlock(t)
  /\ Return(t, 0)
  /\ UNCHANGED << svars, index, ekey, refcount, finalized, uaf, nentries, out, errno, held, called, removed,
                  hvars >>

\* get that acquires the found entry twice.
get_acquire_twice(t) ==
  /\ pc[t] = "get_acquire"
  /\ out' = [out EXCEPT ![t] = node[t]]
  /\ refcount' = [refcount EXCEPT ![node[t]] = @ + 2]
  /\ held' = [held EXCEPT ![t][node[t]] = @ + 1]
  /\ pc' = [pc EXCEPT ![t] = "get_unlock"]
  /\ UNCHANGED << svars, index, lock_ravl, ekey, finalized, uaf, nentries, entry, gkey, probe,
                  node, ret, errno, called, removed, hvars >>

\* get that hands the found entry out without acquiring it.
get_acquire_missing(t) ==
  /\ pc[t] = "get_acquire"
  /\ out' = [out EXCEPT ![t] = node[t]]
  /\ held' = [held EXCEPT ![t][node[t]] = @ + 1]
  /\ pc' = [pc EXCEPT ![t] = "get_unlock"]
  /\ UNCHANGED << svars, index, lock_ravl, ekey, refcount, finalized, uaf, nentries, entry,
                  gkey, probe, node, ret, errno, called, removed, hvars >>

\* Lines 147-148: *entry = ravl_data(node); vmemcache_entry_acquire(*entry).
get_acquire(t) ==
  /\ pc[t] = "get_acquire"
  /\ out' = [out EXCEPT ![t] = node[t]]
  /\ vmemcache_entry_acquire(node[t])
  /\ held' = [held EXCEPT ![t][node[t]] = @ + 1]
  /\ pc' = [pc EXCEPT ![t] = "get_unlock"]
  /\ UNCHANGED << svars, index, lock_ravl, ekey, finalized, uaf, nentries, entry, gkey, probe,
                  node, ret, errno, called, removed, hvars >>

get_unlock(t) ==
  /\ pc[t] = "get_unlock"
  /\ util_mutex_unlock(t)
  /\ Return(t, 0)
  /\ UNCHANGED << svars, index, ekey, refcount, finalized, uaf, nentries, out, errno, held, called, removed,
                  hvars >>

vmcache_index_get(t) ==
  \/ get_call(t)
  \/ get_lock(t)
  \/ get_find(t)
  \/ get_notfound(t)
  \/ get_acquire(t)
  \/ get_unlock(t)

\* ------------------------------------------------- release after a get
\* The holder of a reference got from vmcache_index_get drops it, once.
release_held(t) ==
  /\ pc[t] = "idle"
  /\ \E e \in Entries :
       /\ held[t][e] > 0
       /\ held' = [held EXCEPT ![t][e] = @ - 1]
       /\ called' = [called EXCEPT ![t] = IF held[t][e] = 1 THEN @ \ {e} ELSE @]
       /\ vmemcache_entry_release(e)
  /\ UNCHANGED << svars, index, lock_ravl, ekey, nentries, pc, tvars, removed, hvars >>

\* ----------------------------------------------- vmcache_index_remove
\* A caller passes an entry it holds a reference to, and calls remove on it
\* once.
remove_call(t) ==
  /\ pc[t] = "idle"
  /\ \E e \in Entries :
       /\ held[t][e] > 0
       /\ e \notin called[t]
       /\ entry' = [entry EXCEPT ![t] = e]
       /\ called' = [called EXCEPT ![t] = @ \cup {e}]
  /\ ret' = [ret EXCEPT ![t] = << >>]
  /\ out' = [out EXCEPT ![t] = NULL]
  /\ pc' = [pc EXCEPT ![t] = "remove_lock"]
  /\ UNCHANGED << svars, index, lock_ravl, ekey, refcount, finalized, uaf, nentries, gkey,
                  probe, node, errno, held, removed, hvars >>

remove_lock(t) ==
  /\ pc[t] = "remove_lock"
  /\ util_mutex_lock(t)
  /\ pc' = [pc EXCEPT ![t] = "remove_find"]
  /\ UNCHANGED << svars, index, ekey, refcount, finalized, uaf, nentries, tvars, held, called, removed,
                  hvars >>

\* Lines 163-164: ravl_find with the entry itself as the probe.  The key of
\* an entry whose memory is released reads as any key.
remove_find(t) ==
  /\ pc[t] = "remove_find"
  /\ \E k \in (IF finalized[entry[t]] = 0 THEN {ekey[entry[t]]} ELSE Keys) :
       /\ node' = [node EXCEPT ![t] = ravl_find(index, k)]
       /\ gkey' = [gkey EXCEPT ![t] = k]
  /\ uaf' = [uaf EXCEPT ![entry[t]] = @ \/ finalized[entry[t]] > 0]
  /\ pc' = [pc EXCEPT ![t] = IF node'[t] = NULL THEN "remove_notfound" ELSE "remove_ravl"]
  /\ UNCHANGED << svars, index, lock_ravl, ekey, refcount, finalized, nentries, entry,
                  probe, out, ret, errno, held, called, removed, hvars >>

\* remove whose error exit still releases the entry.
remove_notfound_release(t) ==
  /\ pc[t] = "remove_notfound"
  /\ util_mutex_unlock(t)
  /\ vmemcache_entry_release(entry[t])
  /\ errno' = [errno EXCEPT ![t] = "EINVAL"]
  /\ dropped' = [dropped EXCEPT ![entry[t]] = @ + 1]
  /\ Return(t, -1)
  /\ UNCHANGED << svars, index, ekey, nentries, out, held, called, removed, linked >>

\* Lines 165-171.
remove_notfound(t) ==
  /\ pc[t] = "remove_notfound"
  /\ util_mutex_unlock(t)
  /\ errno' = [errno EXCEPT ![t] = "EINVAL"]
  /\ Return(t, -1)
  /\ UNCHANGED << svars, index, ekey, refcount, finalized, uaf, nentries, out, held, called, removed,
                  hvars >>

\* remove that leaves the node in the tree.
remove_ravl_missing(t) ==
  /\ pc[t] = "remove_ravl"
  /\ removed' = [removed EXCEPT ![gkey[t]] = TRUE]
  /\ pc' = [pc EXCEPT ![t] = "remove_release"]
  /\ UNCHANGED << svars, index, lock_ravl, ekey, refcount, finalized, uaf, nentries, tvars,
                  held, called, hvars >>

\* Line 173: ravl_remove(cache->index, node).
remove_ravl(t) ==
  /\ pc[t] = "remove_ravl"
  /\ index' = ravl_remove(index, node[t])
  /\ removed' = [removed EXCEPT ![gkey[t]] = TRUE]
  /\ pc' = [pc EXCEPT ![t] = "remove_release"]
  /\ UNCHANGED << svars, lock_ravl, ekey, refcount, finalized, uaf, nentries, tvars, held, called,
                  hvars >>

\* Line 175: vmemcache_entry_release(cache, entry), on the argument.
remove_release(t) ==
  /\ pc[t] = "remove_release"
  /\ vmemcache_entry_release(entry[t])
  /\ dropped' = [dropped EXCEPT ![entry[t]] = @ + 1]
  /\ pc' = [pc EXCEPT ![t] = "remove_unlock"]
  /\ UNCHANGED << svars, index, lock_ravl, ekey, nentries, tvars, held, called, removed, linked >>

remove_unlock(t) ==
  /\ pc[t] = "remove_unlock"
  /\ util_mutex_unlock(t)
  /\ Return(t, 0)
  /\ UNCHANGED << svars, index, ekey, refcount, finalized, uaf, nentries, out, errno, held, called, removed,
                  hvars >>

vmcache_index_remove(t) ==
  \/ remove_call(t)
  \/ remove_lock(t)
  \/ remove_find(t)
  \/ remove_notfound(t)
  \/ remove_ravl(t)
  \/ remove_release(t)
  \/ remove_unlock(t)

\* ------------------------------------------------- locked sections
\* The statements of get and remove that run with the lock held.
LockedGetRemove ==
  {"get_find", "get_notfound", "get_acquire", "get_unlock",
   "remove_find", "remove_notfound", "remove_ravl", "remove_release", "remove_unlock"}

\* The statements of insert that run with the lock held.
LockedInsert == {"insert_ravl", "insert_fail", "insert_refcount", "insert_unlock"}

\* The locked sections of the three operations.
Locked == LockedInsert \cup LockedGetRemove

\* Two threads are inside locked sections at once: their accesses to the
\* tree race.
DataRace ==
  \E t, u \in Threads : t # u /\ pc[t] \in Locked /\ pc[u] \in Locked

\* ------------------------------------ vmcache_index_new / _delete
\* util_mutex_init(&lock_ravl) on the one static mutex.  Initialising a mutex
\* that a thread holds is undefined: the mutex is reset to unlocked, or the
\* call leaves it as it is.
util_mutex_init ==
  \E m \in (IF lock_ravl \in Threads THEN {NULL, lock_ravl} ELSE {NULL}) :
    lock_ravl' = m

\* util_mutex_destroy(&lock_ravl).  The mutex is still in use by the index
\* the threads work on: after the call it is unusable (no lock of it
\* succeeds), or the call has left a mutex that still works; destroying a
\* mutex that a thread holds may also fail and leave it held.
util_mutex_destroy ==
  \E m \in (IF lock_ravl \in Threads THEN {DESTROYED, NULL, lock_ravl}
                                      ELSE {DESTROYED, NULL}) :
    lock_ravl' = m

\* Lines 64-69: a thread creates another index instance.
vmcache_index_new(t) ==
  /\ pc[t] = "idle"
  /\ others < MaxOthers
  /\ util_mutex_init
  /\ others' = others + 1
  /\ UNCHANGED << index, ekey, refcount, finalized, uaf, nentries, pc, tvars, held,
                  called, removed, hvars, cmp_keys, cmp_res >>

\* Lines 74-79: a thread deletes another index instance.
vmcache_index_delete(t) ==
  /\ pc[t] = "idle"
  /\ others > 0
  /\ util_mutex_destroy
  /\ others' = others - 1
  /\ UNCHANGED << index, ekey, refcount, finalized, uaf, nentries, pc, tvars, held,
                  called, removed, hvars, cmp_keys, cmp_res >>

\* ------------------------------------------------------------- Next
Next ==
  \E t \in Threads :
    \/ vmcache_index_insert(t)
    \/ vmcache_index_get(t)
    \/ release_held(t)
    \/ vmcache_index_remove(t)

Spec == Init /\ [][Next]_vars

\* util_mutex_lock of thread t, in any of the three operations.
Acquire(t) == insert_lock(t) \/ get_lock(t) \/ remove_lock(t)

\* The steps of thread t between util_mutex_lock and its return.
InLocked(t) ==
  \/ insert_ravl(t) \/ insert_fail(t) \/ insert_refcount(t) \/ insert_unlock(t)
  \/ get_find(t) \/ get_notfound(t) \/ get_acquire(t) \/ get_unlock(t)
  \/ remove_find(t) \/ remove_notfound(t) \/ remove_ravl(t)
  \/ remove_release(t) \/ remove_unlock(t)

\* Fair scheduling: a thread inside a locked section keeps running, and a
\* thread that waits for the mutex gets it if the mutex is free again and
\* again.  Starting a call and releasing a reference are up to the caller.
FairSpec ==
  /\ Spec
  /\ \A t \in Threads : WF_vars(InLocked(t)) /\ SF_vars(Acquire(t))

\* ------------------------------------------------ the comparator alone
\* The keys over a two-byte alphabet of length up to MaxKeyLen.
Alphabet == {97, 98}

CmpKeys ==
  UNION {[ksize : {n}, key : [1..n -> Alphabet]] : n \in 0..MaxKeyLen}

\* The comparator is handed three keys a, b, c.
CmpInit ==
  /\ InitIndex
  /\ cmp_keys \in CmpKeys \X CmpKeys \X CmpKeys

\* ravl_cmp applied to the pairs of a, b, c.
cmp_apply ==
  /\ cmp_keys # << >>
  /\ cmp_res = << >>
  /\ cmp_res' = [ab |-> ravl_cmp(cmp_keys[1], cmp_keys[2]),
                 ba |-> ravl_cmp(cmp_keys[2], cmp_keys[1]),
                 bc |-> ravl_cmp(cmp_keys[2], cmp_keys[3]),
                 ac |-> ravl_cmp(cmp_keys[1], cmp_keys[3])]
  /\ UNCHANGED << index, lock_ravl, ekey, refcount, finalized, uaf, nentries, pc, tvars,
                  held, called, removed, hvars, others, cmp_keys >>

CmpNext == cmp_apply

CmpSpec == CmpInit /\ [][CmpNext]_vars

\* The threads also create and delete other index instances.  The behaviours
\* are followed up to the first data race on the tree: the code has no
\* defined behaviour after it.
NextMulti ==
  /\ ~DataRace
  /\ \/ Next
     \/ \E t \in Threads : vmcache_index_new(t)
     \/ \E t \in Threads : vmcache_index_delete(t)

SpecMulti == Init /\ [][NextMulti]_vars

\* ------------------------------------------------------ type invariant
TypeOK ==
  /\ lock_ravl \in Threads \cup {NULL}
  /\ \A i \in 1..Len(index) : index[i] \in 1..nentries
  /\ \A e \in Entries : finalized[e] \in 0..2
  /\ \A t \in Threads : HeldCount(t) <= MaxHeld
  /\ \A e \in Entries : dropped[e] \in 0..(NumThreads * MaxHeld)

\* ------------------------------------------------------------ claims

\* C1: an entry is never finalized while a reference obtained from
\* vmcache_index_get on it is still outstanding.
C1_NoFinalizeWhileReferenced ==
  \A e \in Entries : finalized[e] > 0 => Holders(e) = 0

\* C2: an entry is finalized exactly when its refcount reaches 0, and at
\* most once: every step that finalizes an entry is its first finalization
\* and leaves its refcount at 0, and every step that takes a refcount to 0
\* finalizes the entry.
C2_FinalizedOnceAtZero ==
  [][\A e \in Entries :
       /\ finalized'[e] # finalized[e] =>
            finalized[e] = 0 /\ finalized'[e] = 1 /\ refcount'[e] = 0
       /\ (refcount[e] # 0 /\ refcount'[e] = 0) => finalized'[e] = 1]_vars

\* Two keys are the same when they have the same length and the same bytes.
SameKey(a, b) == a.ksize = b.ksize /\ \A i \in 1..a.ksize : a.key[i] = b.key[i]

\* Key k is the key of an indexed entry.
Present(k) == \E i \in 1..Len(index) : SameKey(KeyPool[k], KeyOf(index[i]))

\* C3: the index holds at most one entry per distinct key.
C3_OneEntryPerKey ==
  \A i, j \in 1..Len(index) :
    i # j => index[i] # index[j] /\ ~SameKey(KeyOf(index[i]), KeyOf(index[j]))

\* C3's case: an insert under the lock was refused because its key is
\* already indexed.
C3_Witness ==
  \E t \in Threads :
    /\ pc[t] = "insert_fail"
    /\ Present(ekey[entry[t]])
    /\ ~InIndex(entry[t])

\* C4: while a thread holds the lock inside get or remove, every entry in the
\* index has a refcount of at least 1 (never the unset value or 0) and is not
\* finalized.
C4_IndexedRefcountAtLeastOne ==
  \A t \in Threads :
    (lock_ravl = t /\ pc[t] \in LockedGetRemove) =>
      \A i \in 1..Len(index) : refcount[index[i]] >= 1 /\ finalized[index[i]] = 0

\* C4's case: a get has found an entry under the lock while another thread
\* is inside insert, waiting for the lock with an entry whose refcount is unset.
C4_Witness ==
  \E t, u \in Threads :
    /\ lock_ravl = t /\ pc[t] = "get_acquire"
    /\ pc[u] = "insert_lock" /\ refcount[entry[u]] = 0

\* C5: a get of key K, when entry V with key K is in the index with the
\* refcount 1 its insert left, takes V as its result and makes the refcount 2,
\* and returns 0 with V; and a returning insert has left its entry indexed
\* with refcount 1.
C5_RoundTrip ==
  [][\A t \in Threads :
       /\ (pc[t] = "insert_unlock" /\ pc'[t] = "idle") =>
            ret'[t] = <<0>> /\ InIndex(entry[t]) /\ refcount[entry[t]] = 1
       /\ (pc[t] = "get_find" /\ pc'[t] # "get_find") =>
            \A i \in 1..Len(index) :
              SameKey(KeyPool[gkey[t]], KeyOf(index[i])) =>
                node'[t] = index[i] /\ pc'[t] = "get_acquire"
       /\ (pc[t] = "get_acquire" /\ pc'[t] # "get_acquire") =>
            /\ out'[t] = node[t]
            /\ refcount'[node[t]] = refcount[node[t]] + 1
            /\ pc'[t] = "get_unlock"
       /\ (pc[t] = "get_unlock" /\ pc'[t] = "idle") =>
            ret'[t] = <<0>> /\ out'[t] = out[t] /\ out[t] = node[t]]_vars

\* C5's case: a get has returned 0 with an indexed entry whose refcount is 2.
C5_Witness ==
  \E t \in Threads :
    /\ pc[t] = "idle" /\ ret[t] = <<0>> /\ out[t] # NULL
    /\ InIndex(out[t]) /\ refcount[out[t]] = 2 /\ held[t][out[t]] = 1

\* C6: the refcount of an inserted entry that no remove has released is 1
\* plus the number of references got from a get and not yet released (and
\* the entry is not finalized), so after N gets and N releases it is back at
\* the value it had before the first get.
C6_RefcountReturns ==
  \A e \in Entries :
    (/\ linked[e]
     /\ dropped[e] = 0
     /\ ~\E t \in Threads : pc[t] = "insert_refcount" /\ entry[t] = e) =>
      refcount[e] = 1 + Holders(e) /\ finalized[e] = 0

\* C6's case: all threads hold a reference to the same indexed entry.
C6_Witness ==
  \E e \in Entries :
    /\ InIndex(e)
    /\ \A t \in Threads : held[t][e] = 1 /\ pc[t] = "idle"
    /\ refcount[e] = 1 + NumThreads

\* C7: an insert of an entry whose key is already indexed goes to the error
\* exit and returns -1; neither step changes the index, any refcount or the
\* entry a search for that key finds, and the refused entry is not linked.
C7_DuplicateInsertRejected ==
  [][\A t \in Threads :
       /\ (pc[t] = "insert_ravl" /\ pc'[t] # "insert_ravl" /\ Present(ekey[entry[t]])) =>
            /\ pc'[t] = "insert_fail"
            /\ index' = index /\ refcount' = refcount
       /\ (pc[t] = "insert_fail" /\ pc'[t] # "insert_fail") =>
            /\ pc'[t] = "idle" /\ ret'[t] = <<-1>>
            /\ index' = index /\ refcount' = refcount
            /\ ~InIndex(entry[t])
            /\ ravl_find(index', ekey[entry[t]]) = ravl_find(index, ekey[entry[t]])]_vars

\* C7's case: an insert is at its error exit because its key is indexed;
\* the entry indexed under that key is held by a thread, and the refused
\* entry, never linked, still has its unset refcount.
C7_Witness ==
  \E t \in Threads, e \in Entries :
    /\ pc[t] = "insert_fail" /\ lock_ravl = t
    /\ InIndex(e) /\ ekey[e] = ekey[entry[t]] /\ e # entry[t]
    /\ Holders(e) = 1 /\ refcount[e] = 2
    /\ ~linked[entry[t]] /\ refcount[entry[t]] \in Unset \ {0}

C9_RemoveAbsentFailsEINVAL ==
  [][\A t \in Threads :
       /\ (pc[t] = "remove_find" /\ pc'[t] # "remove_find" /\ ~Present(gkey'[t])) =>
            /\ pc'[t] = "remove_notfound" /\ node'[t] = NULL
            /\ index' = index /\ refcount' = refcount /\ finalized' = finalized
       /\ (pc[t] = "remove_notfound" /\ pc'[t] # "remove_notfound") =>
            /\ pc'[t] = "idle" /\ ret'[t] = <<-1>> /\ errno'[t] = "EINVAL"
            /\ index' = index /\ refcount' = refcount /\ finalized' = finalized]_vars

\* C9's case: two threads have called remove on the entry they both hold;
\* one remove released it and returned 0, the other found no node with its
\* key and returned -1 with EINVAL.
C9_Witness ==
  \E t, u \in Threads, e \in Entries :
    /\ t # u /\ e \in called[t] /\ e \in called[u]
    /\ pc[t] = "idle" /\ ret[t] = <<-1>> /\ errno[t] = "EINVAL"
    /\ pc[u] = "idle" /\ ret[u] = <<0>>
    /\ dropped[e] = 1 /\ refcount[e] = 2 /\ finalized[e] = 0
    /\ ~Present(ekey[e])

\* C10: the three outcomes of get.  Its search finds an entry exactly when
\* the key is indexed, and then the entry with that key, which the call
\* returns with 0; an absent key returns 0 with a NULL entry; a failed probe
\* allocation returns -1 with a NULL entry; and the steps of the last two
\* outcomes change no refcount and not the index.
C10_GetOutcomes ==
  [][\A t \in Threads :
       /\ (pc[t] = "get_find" /\ pc'[t] # "get_find") =>
            /\ (node'[t] # NULL) = Present(gkey[t])
            /\ node'[t] # NULL =>
                  InIndex(node'[t]) /\ SameKey(KeyOf(node'[t]), KeyPool[gkey[t]])
            /\ pc'[t] = (IF node'[t] = NULL THEN "get_notfound" ELSE "get_acquire")
            /\ index' = index /\ refcount' = refcount
       /\ (pc[t] = "get_unlock" /\ pc'[t] # "get_unlock") =>
            pc'[t] = "idle" /\ ret'[t] = <<0>> /\ out'[t] = node[t] /\ node[t] # NULL
       /\ (pc[t] = "get_notfound" /\ pc'[t] # "get_notfound") =>
            /\ pc'[t] = "idle" /\ ret'[t] = <<0>> /\ out'[t] = NULL
            /\ index' = index /\ refcount' = refcount
       /\ (pc[t] = "idle" /\ pc'[t] = "idle" /\ ret'[t] # ret[t]) =>
            /\ ret'[t] = <<-1>> /\ out'[t] = NULL
            /\ index' = index /\ refcount' = refcount /\ lock_ravl' = lock_ravl]_vars

\* C10's case: one thread's get has failed to allocate its probe, returning
\* -1 with a NULL entry, while another thread's get is returning an entry.
C10_Witness ==
  \E t, u \in Threads :
    /\ pc[t] = "idle" /\ ret[t] = <<-1>> /\ out[t] = NULL /\ errno[t] = "none"
    /\ nentries = 1 /\ InIndex(1)
    /\ pc[u] = "get_unlock" /\ out[u] = 1

\* C11: the operations are linearized through the lock.  At most one thread
\* is inside a locked section and it is the holder of the lock; the index
\* changes only by a step of the holder; and every call returns what the
\* same call, run alone on the index as it is at the call's unlock, returns:
\* a get its indexed entry with that key or NULL when the key is absent, an
\* insert 0 with its entry indexed or -1 with it not indexed, a remove 0 or
\* -1 with the key it searched for absent.
C11_Linearizable ==
  [][/\ \A t, u \in Threads : (pc'[t] \in Locked /\ pc'[u] \in Locked) => t = u
     /\ \A t \in Threads : pc'[t] \in Locked => lock_ravl' = t
     /\ index' # index =>
          /\ lock_ravl \in Threads /\ lock_ravl' = lock_ravl
          /\ pc'[lock_ravl] # pc[lock_ravl]
     /\ \A t \in Threads :
          /\ (pc[t] = "get_unlock" /\ pc'[t] = "idle") =>
               /\ ret'[t] = <<0>> /\ out'[t] # NULL /\ InIndex(out'[t])
               /\ SameKey(KeyOf(out'[t]), KeyPool[gkey[t]])
          /\ (pc[t] = "get_notfound" /\ pc'[t] = "idle") =>
               ret'[t] = <<0>> /\ out'[t] = NULL /\ ~Present(gkey[t])
          /\ (pc[t] = "insert_unlock" /\ pc'[t] = "idle") =>
               ret'[t] = <<0>> /\ InIndex(entry[t])
          /\ (pc[t] = "insert_fail" /\ pc'[t] = "idle") =>
               ret'[t] = <<-1>> /\ ~InIndex(entry[t])
          /\ (pc[t] = "remove_unlock" /\ pc'[t] = "idle") =>
               ret'[t] = <<0>> /\ ~Present(gkey[t])
          /\ (pc[t] = "remove_notfound" /\ pc'[t] = "idle") =>
               ret'[t] = <<-1>> /\ ~Present(gkey[t])]_vars

\* C11's case: a remove holds the lock and has unlinked its key while a get
\* for the same key waits for the lock.
C11_Witness ==
  \E t, u \in Threads :
    /\ lock_ravl = t /\ pc[t] = "remove_release"
    /\ pc[u] = "get_lock" /\ gkey[u] = gkey[t]

\* C12: creating or deleting another index instance leaves the lock of the
\* index the threads work on intact, so that at most one thread is inside a
\* locked section of its insert, get and remove.
C12_OwnLock ==
  \A t, u \in Threads : (pc[t] \in Locked /\ pc[u] \in Locked) => t = u

\* C13: a thread that has returned from insert, get or remove, with success
\* or with failure, does not hold the lock; the lock is held only by a
\* thread inside a locked section.
C13_LockReleasedOnReturn ==
  /\ \A t \in Threads : pc[t] = "idle" => lock_ravl # t
  /\ lock_ravl # NULL => lock_ravl \in Threads /\ pc[lock_ravl] \in Locked

\* C13's case: one thread has returned -1 with EINVAL from a remove, the
\* other has returned -1 from an insert or a get, and the lock is free.
C13_Witness ==
  \E t, u \in Threads, e \in Entries :
    /\ t # u /\ lock_ravl = NULL
    /\ pc[t] = "idle" /\ ret[t] = <<-1>> /\ errno[t] = "EINVAL" /\ e \in called[t]
    /\ pc[u] = "idle" /\ ret[u] = <<-1>> /\ errno[u] = "none"

\* C14: get never hands out a finalized entry.  The entry its search finds
\* is indexed and not finalized; from the search to the increment no step
\* of any thread finalizes it or takes it out of the index; and the entry is
\* not finalized when get returns it, its refcount then counting the index
\* and the caller.
C14_GetNeverHandsOutFinalized ==
  [][\A t \in Threads :
       /\ pc'[t] = "get_acquire" =>
            /\ lock_ravl' = t
            /\ \E i \in 1..Len(index') : index'[i] = node'[t]
            /\ finalized'[node'[t]] = 0
            /\ refcount'[node'[t]] >= 1
       /\ (pc[t] = "get_acquire" /\ pc'[t] # "get_acquire") =>
            /\ finalized[node[t]] = 0 /\ finalized'[node[t]] = 0
            /\ refcount'[node[t]] >= 2
       /\ (pc[t] = "get_unlock" /\ pc'[t] = "idle") =>
            /\ out'[t] # NULL /\ finalized'[out'[t]] = 0
            /\ refcount'[out'[t]] >= 2 /\ held[t][out'[t]] >= 1]_vars

\* C14's case: a get has found an entry under the lock and not yet
\* incremented its refcount, while a holder of that entry waits for the lock
\* in a remove of it.
C14_Witness ==
  \E t, u \in Threads :
    /\ lock_ravl = t /\ pc[t] = "get_acquire"
    /\ pc[u] = "remove_lock" /\ entry[u] = node[t]
    /\ refcount[node[t]] = 2

\* The lifecycle state of an entry: 0 UNINDEXED, 1 INDEXED, 2 DETACHED,
\* 3 FINALIZED, from the index idx, the finalization counts fin and the
\* linked flags lnk.
Stage(idx, fin, lnk, e) ==
  IF fin[e] > 0 THEN 3
  ELSE IF \E i \in 1..Len(idx) : idx[i] = e THEN 1
  ELSE IF lnk[e] THEN 2
  ELSE 0

\* C15: the lifecycle of an entry only moves forward; the only step into
\* INDEXED is ravl_insert in insert of the entry, the only step into DETACHED
\* is ravl_remove in a remove that goes on to return 0; and FINALIZED is
\* terminal: no step reads or changes the refcount of a finalized entry,
\* finalizes it again or links it into the index.
C15_LifecycleForward ==
  [][\A e \in Entries :
       LET old == Stage(index, finalized, linked, e)
           new == Stage(index', finalized', linked', e)
       IN  /\ new >= old
           /\ (old # 1 /\ new = 1) =>
                \E t \in Threads :
                  pc[t] = "insert_ravl" /\ entry[t] = e /\ pc'[t] = "insert_refcount"
           /\ (old # 2 /\ new = 2) =>
                \E t \in Threads : pc[t] = "remove_ravl" /\ pc'[t] = "remove_release"
           /\ old = 3 =>
                /\ refcount'[e] = refcount[e] /\ finalized'[e] = finalized[e]
                /\ uaf'[e] = uaf[e] /\ ~uaf[e]]_vars

\* C16: a remove goes on to unlink and return 0 exactly when the entry it
\* was given is itself in the index, and fails otherwise; the node it
\* unlinks holds the entry it was given, which is the entry it releases.
C16_RemoveDetachesGivenEntry ==
  [][\A t \in Threads :
       /\ (pc[t] = "remove_find" /\ pc'[t] # "remove_find") =>
            /\ (pc'[t] = "remove_ravl") = InIndex(entry[t])
            /\ (pc'[t] = "remove_notfound") = ~InIndex(entry[t])
       /\ (pc[t] = "remove_ravl" /\ pc'[t] # "remove_ravl") =>
            node[t] = entry[t] /\ InIndex(entry[t])
       /\ (pc[t] = "remove_unlock" /\ pc'[t] = "idle") =>
            ret'[t] = <<0>> /\ node[t] = entry[t]]_vars

\* C17: whenever no thread holds the lock, every inserted entry that is not
\* finalized has a refcount of 1 if it is in the index, else 0, plus the
\* number of references got from a get and not yet released; so an inserted
\* entry that is out of the index and has no holder is finalized.
C17_RefcountAccounting ==
  lock_ravl = NULL =>
    \A e \in Entries :
      /\ (linked[e] /\ finalized[e] = 0) =>
           refcount[e] = (IF InIndex(e) THEN 1 ELSE 0) + Holders(e)
      /\ (linked[e] /\ ~InIndex(e) /\ Holders(e) = 0) => finalized[e] > 0

\* C18: under fair scheduling every started insert, get and remove
\* eventually returns.
C18_EveryCallReturns ==
  \A t \in Threads : (pc[t] # "idle") ~> (pc[t] = "idle")

\* C18's case: a thread has started a call and waits for the lock, which
\* another thread holds inside a remove.
C18_Witness ==
  \E t, u \in Threads :
    /\ t # u /\ lock_ravl = u /\ pc[u] = "remove_ravl"
    /\ pc[t] \in {"insert_lock", "get_lock", "remove_lock"}

\* C19: get behaves the same for an inline and for a heap probe.  The probe
\* is on the heap exactly for ksize > 1024; with either probe the search
\* finds the indexed entry with the key, or nothing when the key is absent,
\* the found entry is incremented once and returned with 0, and an absent
\* key returns 0 with a NULL entry; a heap probe is freed by the search step,
\* under the lock, found or not, is not freed again, and is no longer
\* allocated when get unlocks and returns; the entry returned is an indexed
\* entry, never the probe.
C19_LargeKeyEquivalence ==
  [][\A t \in Threads :
       /\ pc'[t] = "get_lock" =>
            probe'[t] = (IF KeyPool[gkey'[t]].ksize > SIZE_1K THEN "heap" ELSE "inline")
       /\ (pc[t] = "get_find" /\ pc'[t] # "get_find") =>
            /\ lock_ravl = t /\ lock_ravl' = t
            /\ probe'[t] = (IF probe[t] = "heap" THEN "freed" ELSE "inline")
            /\ pc'[t] = (IF Present(gkey[t]) THEN "get_acquire" ELSE "get_notfound")
            /\ Present(gkey[t]) =>
                 InIndex(node'[t]) /\ SameKey(KeyOf(node'[t]), KeyPool[gkey[t]])
            /\ ~Present(gkey[t]) => node'[t] = NULL
       /\ (pc[t] = "get_acquire" /\ pc'[t] # "get_acquire") =>
            /\ out'[t] = node[t] /\ InIndex(out'[t])
            /\ refcount'[node[t]] = refcount[node[t]] + 1
            /\ probe'[t] = probe[t]
       /\ (pc[t] \in {"get_notfound", "get_unlock"} /\ pc'[t] = "idle") =>
            /\ lock_ravl = t /\ probe[t] \in {"inline", "freed"}
            /\ ret'[t] = <<0>>
            /\ out'[t] = (IF pc[t] = "get_unlock" THEN node[t] ELSE NULL)
       /\ probe[t] = "freed" => probe'[t] \in {"freed", "none"}]_vars

\* C19's case: a get with a heap probe has found the entry with its
\* 1025-byte key, freed the probe and is about to return the entry, which
\* another thread already holds from such a get.
C19_Witness ==
  \E t, u \in Threads :
    /\ t # u /\ pc[t] = "get_unlock" /\ probe[t] = "freed"
    /\ out[t] # NULL /\ KeyOf(out[t]).ksize > SIZE_1K
    /\ held[u][out[t]] = 1 /\ refcount[out[t]] = 3

Sign(x) == IF x < 0 THEN -1 ELSE IF x > 0 THEN 1 ELSE 0

\* Byte string x comes before byte string y of the same length n.
LexLess(x, y, n) ==
  \E i \in 1..n : x[i] < y[i] /\ \A j \in 1..(i - 1) : x[j] = y[j]

\* C20: ravl_cmp is a strict total order that compares the length first and
\* the bytes second.  For all keys a, b, c: cmp(a, b) = 0 exactly when a and
\* b have the same length and bytes; sign(cmp(a, b)) = -sign(cmp(b, a)); the
\* order is transitive; a shorter key comes before a longer one; and keys
\* of equal length are ordered lexicographically.
C20_StrictTotalOrder ==
  cmp_res # << >> =>
    LET a == cmp_keys[1]
        b == cmp_keys[2]
        r == cmp_res
    IN  /\ (r.ab = 0) = SameKey(a, b)
        /\ Sign(r.ab) = -Sign(r.ba)
        /\ (r.ab < 0 /\ r.bc < 0) => r.ac < 0
        /\ (r.ab = 0 /\ r.bc = 0) => r.ac = 0
        /\ a.ksize < b.ksize => r.ab < 0
        /\ a.ksize = b.ksize => ((r.ab < 0) = LexLess(a.key, b.key, a.ksize))

\* C20's case: the comparator has ordered "a" before "ab" and "ab" before
\* "ba".
C20_Witness ==
  /\ cmp_res # << >>
  /\ cmp_keys = << KeyPool[1], KeyPool[2], KeyPool[3] >>
  /\ cmp_res.ab < 0 /\ cmp_res.bc < 0 /\ cmp_res.ac < 0 /\ cmp_res.ba > 0
====
